---- MODULE Spec2Model ----
(***************************************************************************)
(* Model of the scrabtopus crawler (src/src/main.rs): the breadth-first    *)
(* crawl loop of main, the link extractor extract_internal_links and the   *)
(* section extractor scrape_page.                                          *)
(*                                                                         *)
(* Strings are tuples of one-character strings, so that trimming,          *)
(* lowercasing, substring search and the ordering of serialized URLs are   *)
(* computed character by character.  An Option is a tuple of length 0      *)
(* (None) or 1 (Some).  Scheme, port and query of a URL are held fixed     *)
(* (https, default port, no query).                                        *)
(***************************************************************************)
EXTENDS Integers, Sequences, FiniteSets, TLC

VARIABLES
    queue,          \* main: queue: VecDeque<Url>
    visited,        \* main: visited: HashSet<String>
    pages,          \* main: scraped_data.pages: Vec<Page>
    pages_scraped,  \* main: pages_scraped
    max_pages,      \* main: max_pages
    start_url,      \* main: base_url, the parsed start_url
    pc,             \* position of main: "loop", "done"; "scrape"/"scraped" for the extractor runs
    fetchLog,       \* history: the URLs for which client.get was issued, in order
    extracted,      \* history: extracted[i] is what extract_internal_links returned for pages[i]
    served,         \* history: served[i] is the document pages[i] was scraped from
    last,           \* history: what the last loop iteration did
    trace,          \* history: the pops, fetches and sleeps of main, in order
    document,       \* input of a stand-alone scrape_page run
    page,           \* output of a stand-alone scrape_page run
    text_elem,      \* input of a stand-alone run of the text normalization
    normalized      \* its outputs: the normalized text, then that text normalized again

vars == <<queue, visited, pages, pages_scraped, max_pages, start_url, pc,
          fetchLog, extracted, served, last, trace, document, page,
          text_elem, normalized>>

----------------------------------------------------------------------------
(* Bounds *)

\* largest page cap the crawl is started with
MaxCap == 4

\* largest number of children of <main> in a generated document
MaxKids == 3

\* longest text node and largest number of text nodes of a generated element
MaxStrLen == 2
MaxTexts == 2

----------------------------------------------------------------------------
(* Characters and strings *)

None == <<>>
Some(x) == <<x>>

\* the characters used, in code point order
Ascii ==
    <<"\t", "\n", " ", "#", ".", "/", "0", "1", ":",
      "A", "B", "C", "D", "E", "F", "G", "H", "I", "J", "K", "L", "M",
      "N", "O", "P", "Q", "R", "S", "T", "U", "V", "W", "X", "Y", "Z",
      "a", "b", "c", "d", "e", "f", "g", "h", "i", "j", "k", "l", "m",
      "n", "o", "p", "q", "r", "s", "t", "u", "v", "w", "x", "y", "z">>

Code(c) == CHOOSE i \in 1..Len(Ascii) : Ascii[i] = c

IsUpper(c) == Code(c) >= Code("A") /\ Code(c) <= Code("Z")

\* char::to_lowercase on the characters used
LowerChar(c) == IF IsUpper(c) THEN Ascii[Code(c) + 26] ELSE c

\* str::to_lowercase
to_lowercase(s) == [i \in 1..Len(s) |-> LowerChar(s[i])]

\* str::contains(pattern)
contains(s, t) ==
    \E i \in 0..(Len(s) - Len(t)) : SubSeq(s, i + 1, i + Len(t)) = t

IsWhite(c) == c \in {" ", "\t", "\n"}

\* str::trim
RECURSIVE trim_start(_)
trim_start(s) ==
    IF s # <<>> /\ IsWhite(Head(s)) THEN trim_start(Tail(s)) ELSE s

\* variant: only one trailing whitespace character is removed
trim_end_once(s) ==
    IF s # <<>> /\ IsWhite(s[Len(s)]) THEN SubSeq(s, 1, Len(s) - 1) ELSE s

RECURSIVE trim_end(_)
trim_end(s) ==
    IF s # <<>> /\ IsWhite(s[Len(s)]) THEN trim_end(SubSeq(s, 1, Len(s) - 1)) ELSE s

trim(s) == trim_end(trim_start(s))

\* <[&str]>::join(" ")
RECURSIVE join(_)
join(strs) ==
    IF strs = <<>> THEN <<>>
    ELSE IF Len(strs) = 1 THEN strs[1]
    ELSE strs[1] \o <<" ">> \o join(Tail(strs))

\* Ord on strings: lexicographic by code point
RECURSIVE StrLess(_, _)
StrLess(s, t) ==
    IF t = <<>> THEN FALSE
    ELSE IF s = <<>> THEN TRUE
    ELSE IF Head(s) = Head(t) THEN StrLess(Tail(s), Tail(t))
    ELSE Code(Head(s)) < Code(Head(t))

----------------------------------------------------------------------------
(* URLs *)

HostBlog == [kind |-> "domain",
             name |-> <<"b", "l", "o", "g", ".", "h", "o", "l", "o", "c", "h", "a", "i", "n", ".", "o", "r", "g">>]
HostEvil == [kind |-> "domain",
             name |-> <<"e", "v", "i", "l", ".", "o", "r", "g">>]
HostIp   == [kind |-> "ip",
             name |-> <<"1", "0", ".", "0", ".", "0", ".", "1">>]

MkUrl(h, p, f) == [host |-> h, path |-> p, fragment |-> f]

\* Url::domain: the host if it is a domain name, None for an IP address
domain(u) == IF u.host.kind = "domain" THEN Some(u.host.name) ELSE None

\* Url::path
path(u) == u.path

\* Url::as_str: the serialization, fragment included
as_str(u) ==
    <<"h", "t", "t", "p", "s", ":", "/", "/">> \o u.host.name \o u.path
    \o (IF u.fragment = None THEN <<>> ELSE <<"#">> \o u.fragment[1])

\* Ord for Url compares the serializations
UrlLess(u, v) == StrLess(as_str(u), as_str(v))

\* An href is modelled after parsing as a reference:
\*   "abs"  an absolute URL,           "path" an absolute-path reference,
\*   "frag" a fragment-only reference, "bad"  a string Url::join rejects.
MkHref(k, h, p, f) == [kind |-> k, host |-> h, path |-> p, fragment |-> f]

\* Url::join: the fragment of the result is the fragment of the reference
url_join(base, href) ==
    CASE href.kind = "abs"  -> Some(MkUrl(href.host, href.path, href.fragment))
      [] href.kind = "path" -> Some(MkUrl(base.host, href.path, href.fragment))
      [] href.kind = "frag" -> Some(MkUrl(base.host, base.path, href.fragment))
      [] OTHER              -> None

----------------------------------------------------------------------------
(* Parsed documents (scraper::Html) *)

\* A node is an element (tag, optional href attribute, children) or a text
\* node (tag "#text", its text).
El(tag, kids) == [tag |-> tag, href |-> None, text |-> <<>>, kids |-> kids]
Anchor(href, kids) == [tag |-> "a", href |-> Some(href), text |-> <<>>, kids |-> kids]
Txt(s) == [tag |-> "#text", href |-> None, text |-> s, kids |-> <<>>]

\* ElementRef::wrap: Some for an element, None for any other node
IsElement(n) == n.tag # "#text"

\* The descendants of a node in document order, the node itself excluded;
\* each entry keeps the node's following siblings (NodeRef::next_sibling).
RECURSIVE traverse(_)
RECURSIVE traverse_from(_, _)
traverse_from(kids, i) ==
    IF i > Len(kids) THEN <<>>
    ELSE <<[el |-> kids[i], next |-> SubSeq(kids, i + 1, Len(kids))]>>
         \o traverse(kids[i]) \o traverse_from(kids, i + 1)
traverse(n) == traverse_from(n.kids, 1)

\* the selectors of scrape_page and extract_internal_links
main_selector(e) == e.tag = "main"
title_selector(e) == e.tag \in {"h1", "h2", "h3", "h4"}
paragraph_selector(e) == e.tag = "p"
list_selector(e) == e.tag \in {"ul", "ol"}
list_item_selector(e) == e.tag = "li"
exclusion_selector(e) ==
    e.tag \in {"button", "nav", "footer", "a", "script", "style", "svg", "img"}
link_selector(e) == e.tag = "a" /\ e.href # None

\* Selector::matches, the selector named by the string it is parsed from
matches(sel, e) ==
    CASE sel = "main" -> main_selector(e)
      [] sel = "h1, h2, h3, h4" -> title_selector(e)
      [] sel = "p" -> paragraph_selector(e)
      [] sel = "ul, ol" -> list_selector(e)
      [] sel = "li" -> list_item_selector(e)
      [] sel = "button, nav, footer, a, script, style, svg, img" -> exclusion_selector(e)
      [] sel = "a[href]" -> link_selector(e)

\* ElementRef::select / Html::select: matching element descendants, document order
select(root, sel) ==
    SelectSeq(traverse(root), LAMBDA d : IsElement(d.el) /\ matches(sel, d.el))

\* ElementRef::text: the descendant text nodes, document order
text(e) ==
    LET ts == SelectSeq(traverse(e), LAMBDA d : ~IsElement(d.el))
    IN  [i \in 1..Len(ts) |-> ts[i].el.text]

\* element.text().collect::<Vec<_>>().join(" ").trim().to_string()
normalize(e) == trim(join(text(e)))

----------------------------------------------------------------------------
(* scrape_page *)

Paragraph(t) == [kind |-> "Paragraph", text |-> t, lists |-> <<>>]
List(items) == [kind |-> "List", text |-> <<>>, lists |-> items]

\* the paragraph check of the sibling walk
paragraph_blocks(element) ==
    IF paragraph_selector(element) /\ normalize(element) # <<>>
    THEN <<Paragraph(normalize(element))>>
    ELSE <<>>

\* the list check of the sibling walk
list_blocks(element) ==
    IF list_selector(element)
    THEN LET lis == select(element, "li")
             all == [i \in 1..Len(lis) |-> normalize(lis[i].el)]
             items == SelectSeq(all, LAMBDA t : t # <<>>)
         IN  IF items # <<>> THEN <<List(items)>> ELSE <<>>
    ELSE <<>>

\* variant: a header among the siblings does not end the walk
RECURSIVE sibling_walk_through(_)
sibling_walk_through(sibs) ==
    IF sibs = <<>> THEN <<>>
    ELSE LET sib == Head(sibs) IN
         IF ~IsElement(sib) THEN sibling_walk_through(Tail(sibs))
         ELSE IF title_selector(sib) THEN sibling_walk_through(Tail(sibs))
         ELSE IF exclusion_selector(sib) THEN sibling_walk_through(Tail(sibs))
         ELSE paragraph_blocks(sib) \o list_blocks(sib) \o sibling_walk_through(Tail(sibs))

\* the sibling walk: the blocks of the siblings up to the next header
RECURSIVE sibling_walk(_)
sibling_walk(sibs) ==
    IF sibs = <<>> THEN <<>>
    ELSE LET sib == Head(sibs) IN
         IF ~IsElement(sib) THEN sibling_walk(Tail(sibs))
         ELSE IF title_selector(sib) THEN <<>>
         ELSE IF exclusion_selector(sib) THEN sibling_walk(Tail(sibs))
         ELSE paragraph_blocks(sib) \o list_blocks(sib) \o sibling_walk(Tail(sibs))

\* a header without text starts no section
skip_header(header_text) == header_text = <<>>

\* variant: every started section is pushed
keep_section_always(section) == TRUE

\* a section is pushed only when it collected content
keep_section(section) == section.content # <<>>

\* the sections of the headers hs (entries of traverse), in order
RECURSIVE sections_of(_)
sections_of(hs) ==
    IF hs = <<>> THEN <<>>
    ELSE LET header_text == normalize(Head(hs).el)
             section == [header |-> header_text,
                         content |-> sibling_walk(Head(hs).next)]
         IN  (IF ~skip_header(header_text) /\ keep_section(section)
              THEN <<section>> ELSE <<>>)
             \o sections_of(Tail(hs))

scrape_page(doc, url) ==
    LET mains == select(doc, "main") IN
    IF mains = <<>>
    THEN [url |-> as_str(url), title |-> <<>>, sections |-> <<>>]
    ELSE LET main_content == mains[1].el
             headers == select(main_content, "h1, h2, h3, h4")
         IN  [url |-> as_str(url),
              title |-> IF headers = <<>> THEN <<>> ELSE normalize(headers[1].el),
              sections |-> sections_of(headers)]

----------------------------------------------------------------------------
(* extract_internal_links *)

Keywords ==
    { <<"p", "o", "l", "i", "c", "y">>,
      <<"t", "e", "r", "m", "s">>,
      <<"c", "o", "o", "k", "i", "e">>,
      <<"p", "r", "i", "v", "a", "c", "y">>,
      <<"l", "i", "c", "e", "n", "s", "e">> }

\* variant: the path is tested as written
filter_path_cased(resolved_url) == path(resolved_url)

\* the path that the keyword test looks at
filter_path(resolved_url) == to_lowercase(path(resolved_url))

\* variant: only the base is required to have a domain
same_domain_any(resolved_url, base_url) == domain(base_url) # None

\* the link is within the same domain as the base
same_domain(resolved_url, base_url) ==
    /\ domain(base_url) # None
    /\ domain(resolved_url) = domain(base_url)

\* the link is not policy-related
not_policy(resolved_url) ==
    \A k \in Keywords : ~contains(filter_path(resolved_url), k)

\* links.sort(): insertion into a sorted vector
RECURSIVE insert_sorted(_, _)
insert_sorted(u, s) ==
    IF s = <<>> THEN <<u>>
    ELSE IF UrlLess(Head(s), u) THEN <<Head(s)>> \o insert_sorted(u, Tail(s))
    ELSE <<u>> \o s

RECURSIVE sort(_)
sort(s) == IF s = <<>> THEN <<>> ELSE insert_sorted(Head(s), sort(Tail(s)))

\* links.dedup(): drop consecutive repeats
RECURSIVE dedup(_)
dedup(s) ==
    IF Len(s) <= 1 THEN s
    ELSE IF s[1] = s[2] THEN dedup(Tail(s))
    ELSE <<s[1]>> \o dedup(Tail(s))

\* the links pushed for the anchors as (entries of traverse), in order
RECURSIVE push_links(_, _)
push_links(as, base_url) ==
    IF as = <<>> THEN <<>>
    ELSE LET resolved == url_join(base_url, Head(as).el.href[1]) IN
         (IF /\ resolved # None
             /\ same_domain(resolved[1], base_url)
             /\ not_policy(resolved[1])
          THEN <<resolved[1]>> ELSE <<>>)
         \o push_links(Tail(as), base_url)

\* variant: the anchors of the whole document are taken
extract_internal_links_anywhere(doc, base_url) ==
    dedup(sort(push_links(select(doc, "a[href]"), base_url)))

extract_internal_links(doc, base_url) ==
    LET mains == select(doc, "main") IN
    IF mains = <<>> THEN <<>>
    ELSE dedup(sort(push_links(select(mains[1].el, "a[href]"), base_url)))

----------------------------------------------------------------------------
(* The pages served to the crawl *)

Root == <<"/">>
PathA == <<"/", "a">>
PathB == <<"/", "b">>
PathPolicy == <<"/", "P", "o", "l", "i", "c", "y">>
FragX == <<"x">>

Intro == <<"I", "n", "t", "r", "o">>
Hello == <<"H", "e", "l", "l", "o">>
Links == <<"L", "i", "n", "k", "s">>

HrefPath(p, f) == MkHref("path", HostBlog, p, f)
HrefFrag(f) == MkHref("frag", HostBlog, Root, Some(f))
HrefAbs(h, p, f) == MkHref("abs", h, p, f)
HrefBad == MkHref("bad", HostBlog, Root, None)

Html(kids) == El("html", <<El("body", kids)>>)

\* no <main>: its paragraph and its link are outside the main region
DocNoMain ==
    Html(<<El("p", <<Txt(Hello)>>), Anchor(HrefPath(PathA, None), <<Txt(Links)>>)>>)

\* a title, one section, a policy link and two internal links
DocIntro ==
    Html(<<El("main",
        <<El("h1", <<Txt(Intro)>>), El("p", <<Txt(Hello)>>),
          El("h2", <<Txt(Links)>>),
          Anchor(HrefPath(PathPolicy, None), <<Txt(Links)>>),
          Anchor(HrefPath(PathB, None), <<Txt(Links)>>),
          Anchor(HrefPath(PathA, None), <<Txt(Links)>>)>>)>>)

\* links to itself, to one resource under two fragments, to another host,
\* and an href that does not resolve
DocSelf ==
    Html(<<El("main",
        <<El("h2", <<Txt(<<" ">>)>>), El("p", <<Txt(Hello)>>),
          Anchor(HrefFrag(FragX), <<>>),
          Anchor(HrefPath(PathA, Some(FragX)), <<>>),
          Anchor(HrefPath(PathA, None), <<>>),
          Anchor(HrefAbs(HostEvil, PathA, None), <<>>),
          Anchor(HrefAbs(HostIp, PathB, None), <<>>),
          Anchor(HrefBad, <<>>)>>)>>)

\* links back to the start page, nested in a list
DocBack ==
    Html(<<El("main",
        <<El("h3", <<Txt(Links)>>),
          El("ul", <<El("li", <<Anchor(HrefAbs(HostBlog, Root, None), <<Txt(Intro)>>)>>),
                     El("li", <<Anchor(HrefPath(PathB, None), <<Txt(Hello)>>)>>)>>)>>)>>)

CrawlDocs == {DocNoMain, DocIntro, DocSelf, DocBack}

\* the ways a fetch fails: client.get(..).send() is Err, the status is not a
\* success, response.text() is Err
Failures == {"request_error", "non_success_status", "body_error"}

\* the start URLs the crawl is run with
Seeds == { MkUrl(HostBlog, Root, None),
           MkUrl(HostBlog, PathPolicy, None),
           MkUrl(HostIp, Root, None) }

----------------------------------------------------------------------------
(* The crawl loop of main *)

\* variant: the cap test is off by one, one page late
cap_reached_late(n, m) == n > m

\* variant: the cap test is off by one, one page early
cap_reached_early(n, m) == n + 1 >= m

\* pages_scraped >= max_pages
cap_reached(n, m) == n >= m

\* visited.contains(&url_str)
is_visited(v, url_str) == url_str \in v

\* variant: the URL is not recorded
mark_visited_forgotten(v, url_str) == v

\* visited.insert(url_str)
mark_visited(v, url_str) == v \cup {url_str}

\* variant: the queue is not searched
queue_contains_never(q, link) == FALSE

\* queue.contains(&link): Url equality
queue_contains(q, link) == \E i \in 1..Len(q) : q[i] = link

\* variant: the link goes to the front of the queue
push_front(q, link) == <<link>> \o q

\* queue.push_back(link)
push_back(q, link) == Append(q, link)

\* variant: a link is enqueued whenever it is not in the queue, visited or not
RECURSIVE enqueue_links_unvisited(_, _, _)
enqueue_links_unvisited(q, links, v) ==
    IF links = <<>> THEN q
    ELSE enqueue_links_unvisited(
            IF ~queue_contains(q, Head(links))
            THEN push_back(q, Head(links)) ELSE q,
            Tail(links), v)

\* for link in links { if !visited.contains(..) && !queue.contains(..) { push_back } }
RECURSIVE enqueue_links(_, _, _)
enqueue_links(q, links, v) ==
    IF links = <<>> THEN q
    ELSE enqueue_links(
            IF ~is_visited(v, as_str(Head(links))) /\ ~queue_contains(q, Head(links))
            THEN push_back(q, Head(links)) ELSE q,
            Tail(links), v)

\* variant: no rate limiting
sleep_skipped(t) == t

\* std::thread::sleep(Duration::from_millis(500))
sleep(t) == Append(t, "sleep")

NoDoc == El("html", <<>>)
NoPage == [url |-> <<>>, title |-> <<>>, sections |-> <<>>]

Init ==
    /\ start_url \in Seeds
    /\ max_pages \in 0..MaxCap
    /\ queue = <<start_url>>
    /\ visited = {}
    /\ pages = <<>>
    /\ pages_scraped = 0
    /\ pc = "loop"
    /\ fetchLog = <<>>
    /\ extracted = <<>>
    /\ served = <<>>
    /\ last = [ev |-> "start", url |-> start_url]
    /\ trace = <<>>
    /\ document = NoDoc
    /\ page = NoPage
    /\ text_elem = NoDoc
    /\ normalized = <<>>

\* queue.pop_front() is None: the loop ends
Exhausted ==
    /\ pc = "loop"
    /\ queue = <<>>
    /\ pc' = "done"
    /\ last' = [ev |-> "exhausted", url |-> last.url]
    /\ UNCHANGED <<queue, visited, pages, pages_scraped, max_pages, start_url,
                   fetchLog, extracted, served, trace, document, page,
                   text_elem, normalized>>

\* variant: the cap is reached, but the loop goes on to the next pop
CapStop_continue ==
    /\ pc = "loop"
    /\ queue # <<>>
    /\ cap_reached(pages_scraped, max_pages)
    /\ queue' = Tail(queue)
    /\ last' = [ev |-> "cap", url |-> Head(queue)]
    /\ trace' = Append(trace, "pop")
    /\ UNCHANGED <<visited, pages, pages_scraped, max_pages, start_url, pc,
                   fetchLog, extracted, served, document, page,
                   text_elem, normalized>>

\* the cap is reached: break
CapStop ==
    /\ pc = "loop"
    /\ queue # <<>>
    /\ cap_reached(pages_scraped, max_pages)
    /\ queue' = Tail(queue)
    /\ pc' = "done"
    /\ last' = [ev |-> "cap", url |-> Head(queue)]
    /\ trace' = Append(trace, "pop")
    /\ UNCHANGED <<visited, pages, pages_scraped, max_pages, start_url,
                   fetchLog, extracted, served, document, page,
                   text_elem, normalized>>

\* the popped URL is already visited: continue
SkipVisited ==
    /\ pc = "loop"
    /\ queue # <<>>
    /\ ~cap_reached(pages_scraped, max_pages)
    /\ is_visited(visited, as_str(Head(queue)))
    /\ queue' = Tail(queue)
    /\ last' = [ev |-> "skip", url |-> Head(queue)]
    /\ trace' = Append(trace, "pop")
    /\ UNCHANGED <<visited, pages, pages_scraped, max_pages, start_url, pc,
                   fetchLog, extracted, served, document, page,
                   text_elem, normalized>>

\* variant: the failure is propagated out of main and ends the crawl
FetchFail_abort ==
    /\ pc = "loop"
    /\ queue # <<>>
    /\ ~cap_reached(pages_scraped, max_pages)
    /\ ~is_visited(visited, as_str(Head(queue)))
    /\ \E f \in Failures :
         last' = [ev |-> f, url |-> Head(queue)]
    /\ fetchLog' = Append(fetchLog, Head(queue))
    /\ queue' = Tail(queue)
    /\ pc' = "done"
    /\ trace' = trace \o <<"pop", "fetch">>
    /\ UNCHANGED <<visited, pages, pages_scraped, max_pages, start_url,
                   extracted, served, document, page,
                   text_elem, normalized>>

\* the fetch fails: log, mark visited, sleep
FetchFail ==
    /\ pc = "loop"
    /\ queue # <<>>
    /\ ~cap_reached(pages_scraped, max_pages)
    /\ ~is_visited(visited, as_str(Head(queue)))
    /\ \E f \in Failures :
         last' = [ev |-> f, url |-> Head(queue)]
    /\ fetchLog' = Append(fetchLog, Head(queue))
    /\ queue' = Tail(queue)
    /\ visited' = mark_visited(visited, as_str(Head(queue)))
    /\ trace' = sleep(trace \o <<"pop", "fetch">>)
    /\ UNCHANGED <<pages, pages_scraped, max_pages, start_url, pc,
                   extracted, served, document, page,
                   text_elem, normalized>>

\* variant: the scraped page is pushed but not counted
FetchOk_uncounted ==
    /\ pc = "loop"
    /\ queue # <<>>
    /\ ~cap_reached(pages_scraped, max_pages)
    /\ ~is_visited(visited, as_str(Head(queue)))
    /\ \E doc \in CrawlDocs :
         LET current_url == Head(queue)
             links == extract_internal_links(doc, current_url)
         IN  /\ pages' = Append(pages, scrape_page(doc, current_url))
             /\ extracted' = Append(extracted, links)
             /\ served' = Append(served, doc)
             /\ queue' = enqueue_links(Tail(queue), links, visited)
             /\ visited' = mark_visited(visited, as_str(current_url))
             /\ last' = [ev |-> "ok", url |-> current_url]
    /\ fetchLog' = Append(fetchLog, Head(queue))
    /\ trace' = sleep(trace \o <<"pop", "fetch">>)
    /\ UNCHANGED <<pages_scraped, max_pages, start_url, pc, document, page,
                   text_elem, normalized>>

\* the fetch succeeds: scrape, enqueue the links, mark visited, sleep
FetchOk ==
    /\ pc = "loop"
    /\ queue # <<>>
    /\ ~cap_reached(pages_scraped, max_pages)
    /\ ~is_visited(visited, as_str(Head(queue)))
    /\ \E doc \in CrawlDocs :
         LET current_url == Head(queue)
             links == extract_internal_links(doc, current_url)
         IN  /\ pages' = Append(pages, scrape_page(doc, current_url))
             /\ pages_scraped' = pages_scraped + 1
             /\ extracted' = Append(extracted, links)
             /\ served' = Append(served, doc)
             /\ queue' = enqueue_links(Tail(queue), links, visited)
             /\ visited' = mark_visited(visited, as_str(current_url))
             /\ last' = [ev |-> "ok", url |-> current_url]
    /\ fetchLog' = Append(fetchLog, Head(queue))
    /\ trace' = sleep(trace \o <<"pop", "fetch">>)
    /\ UNCHANGED <<max_pages, start_url, pc, document, page,
                   text_elem, normalized>>

Next == Exhausted \/ CapStop \/ SkipVisited \/ FetchFail \/ FetchOk

Spec == Init /\ [][Next]_vars

\* the loop body always runs to its end and the loop goes on to the next pop
FairSpec == Spec /\ WF_vars(Next)

----------------------------------------------------------------------------
(* scrape_page on its own, over generated documents *)

NodePool ==
    { El("h1", <<Txt(Intro)>>),
      El("h2", <<Txt(<<" ">>), Txt(<<"\n">>)>>),
      El("p", <<Txt(<<" ">>), Txt(Hello)>>),
      El("p", <<Txt(<<"\t">>)>>),
      El("ul", <<El("li", <<Txt(Hello)>>), El("li", <<Txt(<<" ">>)>>)>>),
      El("ol", <<El("li", <<>>)>>),
      El("nav", <<El("p", <<Txt(Hello)>>)>>),
      El("div", <<El("h3", <<Txt(Links)>>), El("p", <<Txt(Hello)>>)>>),
      Txt(Hello) }

GenDocs ==
    {DocNoMain} \cup
    { Html(<<El("main", kids)>>) :
        kids \in UNION { [1..n -> NodePool] : n \in 0..MaxKids } }

InitScrape ==
    /\ document \in GenDocs
    /\ page = NoPage
    /\ text_elem = NoDoc
    /\ normalized = <<>>
    /\ pc = "scrape"
    /\ start_url = MkUrl(HostBlog, Root, None)
    /\ max_pages = 0
    /\ queue = <<>>
    /\ visited = {}
    /\ pages = <<>>
    /\ pages_scraped = 0
    /\ fetchLog = <<>>
    /\ extracted = <<>>
    /\ served = <<>>
    /\ last = [ev |-> "start", url |-> start_url]
    /\ trace = <<>>

Scrape ==
    /\ pc = "scrape"
    /\ page' = scrape_page(document, start_url)
    /\ pc' = "scraped"
    /\ UNCHANGED <<queue, visited, pages, pages_scraped, max_pages, start_url,
                   fetchLog, extracted, served, last, trace, document,
                   text_elem, normalized>>

NextScrape == Scrape

SpecScrape == InitScrape /\ [][NextScrape]_vars

----------------------------------------------------------------------------
(* The text normalization on its own, over generated elements *)

NormChars == {" ", "\t", "a"}

NormStrings == UNION { [1..n -> NormChars] : n \in 0..MaxStrLen }

NormElements ==
    { El("p", [i \in 1..Len(ts) |-> Txt(ts[i])]) :
        ts \in UNION { [1..n -> NormStrings] : n \in 0..MaxTexts } }

InitNorm ==
    /\ text_elem \in NormElements
    /\ normalized = <<>>
    /\ pc = "normalize"
    /\ document = NoDoc
    /\ page = NoPage
    /\ start_url = MkUrl(HostBlog, Root, None)
    /\ max_pages = 0
    /\ queue = <<>>
    /\ visited = {}
    /\ pages = <<>>
    /\ pages_scraped = 0
    /\ fetchLog = <<>>
    /\ extracted = <<>>
    /\ served = <<>>
    /\ last = [ev |-> "start", url |-> start_url]
    /\ trace = <<>>

\* the text of the element, normalized
Normalize ==
    /\ pc = "normalize"
    /\ normalized' = <<normalize(text_elem)>>
    /\ pc' = "normalized"
    /\ UNCHANGED <<queue, visited, pages, pages_scraped, max_pages, start_url,
                   fetchLog, extracted, served, last, trace, document, page, text_elem>>

\* the normalized text, as the only text node of an element, normalized again
Renormalize ==
    /\ pc = "normalized"
    /\ normalized' = Append(normalized, normalize(El("p", <<Txt(normalized[1])>>)))
    /\ pc' = "renormalized"
    /\ UNCHANGED <<queue, visited, pages, pages_scraped, max_pages, start_url,
                   fetchLog, extracted, served, last, trace, document, page, text_elem>>

NextNorm == Normalize \/ Renormalize

SpecNorm == InitNorm /\ [][NextNorm]_vars

\* C12: text normalization is idempotent: normalizing a normalized text
\* returns it unchanged.
NormalizeIdempotent ==
    pc = "renormalized" => normalized[2] = normalized[1]

\* a text with whitespace at both ends and inside was normalized twice
NormalizeIdempotentWitness ==
    /\ pc = "renormalized"
    /\ normalized[1] # join(text(text_elem))
    /\ IsWhite(join(text(text_elem))[1])
    /\ \E i \in 1..Len(normalized[1]) : IsWhite(normalized[1][i])

----------------------------------------------------------------------------
(* Properties of the crawl loop *)

Range(seq) == { seq[i] : i \in 1..Len(seq) }

NoRepeats(seq) == \A i, j \in 1..Len(seq) : i # j => seq[i] # seq[j]

PageUrls == [i \in 1..Len(pages) |-> pages[i].url]

\* C1: each URL is fetched at most once, and no two pages of
\* scraped_data.pages have the same url.
VisitedOnce ==
    /\ NoRepeats([i \in 1..Len(fetchLog) |-> as_str(fetchLog[i])])
    /\ NoRepeats(PageUrls)

\* a URL that was fetched earlier came out of the queue again and was skipped
VisitedOnceWitness ==
    /\ last.ev = "skip"
    /\ last.url \in Range(fetchLog)
    /\ Len(pages) >= 2

\* C2: pages_scraped never exceeds max_pages and is the number of pages.
CapInvariant ==
    /\ pages_scraped <= max_pages
    /\ pages_scraped = Len(pages)

\* the cap is reached while URLs are still pending
CapInvariantWitness ==
    /\ pc = "loop"
    /\ max_pages >= 2
    /\ pages_scraped = max_pages
    /\ queue # <<>>

\* C3: once pages_scraped >= max_pages nothing more is fetched and the next
\* pop ends the crawl; the links of the page that reached the cap are still
\* appended to the queue.
StopAtCap ==
    [][ /\ pages_scraped >= max_pages =>
             /\ fetchLog' = fetchLog
             /\ pages' = pages
             /\ pc' = "done"
        /\ (pages_scraped < max_pages /\ pages_scraped' >= max_pages) =>
             \A link \in Range(extracted'[Len(extracted')]) :
                 \/ is_visited(visited, as_str(link))
                 \/ queue_contains(queue', link)
      ]_vars

\* max_pages = 1, the start page linked to two pages: one page, one fetch,
\* and a discovered link left in the queue
StopAtCapWitness ==
    /\ pc = "done"
    /\ last.ev = "cap"
    /\ max_pages = 1
    /\ Len(pages) = 1
    /\ Len(fetchLog) = 1
    /\ Len(extracted[1]) = 2
    /\ Len(queue) = 1
    /\ queue[1] \notin Range(fetchLog)

\* a step in which a fetch failed
FailStep == fetchLog' # fetchLog /\ last'.ev \in Failures

\* C4: a failed fetch appends no page, leaves pages_scraped and the rest of
\* the queue unchanged, marks the URL visited and lets the loop continue; when
\* the start URL fails the crawl is left with an empty queue and no pages.
FailureIsLocal ==
    [][ FailStep =>
          /\ pages' = pages
          /\ pages_scraped' = pages_scraped
          /\ queue' = Tail(queue)
          /\ visited' = visited \cup {as_str(Head(queue))}
          /\ pc' = "loop"
          /\ (fetchLog = <<>> => queue' = <<>> /\ pages' = <<>>)
      ]_vars

\* a URL other than the start URL failed with a non-success status, after a
\* page was scraped and with URLs still pending
FailureIsLocalWitness ==
    /\ last.ev = "non_success_status"
    /\ pc = "loop"
    /\ Len(pages) >= 1
    /\ queue # <<>>
    /\ as_str(last.url) \in visited

\* page i links to page j
LinksTo(i, j) == \E link \in Range(extracted[i]) : as_str(link) = pages[j].url

\* the pages within k links of the first page, through scraped pages
RECURSIVE Within(_)
Within(k) ==
    IF k = 0 THEN {1} \cap (1..Len(pages))
    ELSE LET near == Within(k - 1)
         IN  near \cup { j \in 1..Len(pages) : \E i \in near : LinksTo(i, j) }

\* Depth[j] is the shortest link distance of page j from the first page;
\* Len(pages) + 1 when there is no path
Depth ==
    LET within == [k \in 0..Len(pages) |-> Within(k)]
    IN  [j \in 1..Len(pages) |->
            IF j \in within[Len(pages)]
            THEN CHOOSE k \in 0..Len(pages) :
                    j \in within[k] /\ (k = 0 \/ j \notin within[k - 1])
            ELSE Len(pages) + 1]

\* s is t with some entries left out
RECURSIVE IsSubsequence(_, _)
IsSubsequence(s, t) ==
    IF s = <<>> THEN TRUE
    ELSE IF t = <<>> THEN FALSE
    ELSE IF Head(s) = Head(t) THEN IsSubsequence(Tail(s), Tail(t))
    ELSE IsSubsequence(s, Tail(t))

\* C5: the pages are in the order they were scraped, the first is the start
\* page, every page is linked from the start page through scraped pages, and
\* no page of greater depth precedes a page of smaller depth.
BreadthFirstOrder ==
    /\ IsSubsequence(PageUrls, [i \in 1..Len(fetchLog) |-> as_str(fetchLog[i])])
    /\ pages # <<>> => pages[1].url = as_str(start_url)
    /\ LET depth == Depth
       IN  /\ \A j \in 1..Len(pages) : depth[j] <= Len(pages)
           /\ \A i, j \in 1..Len(pages) : i < j => depth[i] <= depth[j]

\* four pages of depths 0, 1, 1, 2, with a failed fetch in between
BreadthFirstOrderWitness ==
    /\ Len(pages) = 4
    /\ Depth = <<0, 1, 1, 2>>
    /\ Len(fetchLog) > Len(pages)

\* C6: every link returned by extract_internal_links has the host of the start
\* URL, and so has every URL enqueued, fetched or recorded in a page.
DomainScoped ==
    /\ \A i \in 1..Len(extracted) :
           \A link \in Range(extracted[i]) : link.host = start_url.host
    /\ \A u \in Range(queue) \cup Range(fetchLog) : u.host = start_url.host
    /\ \A i \in 1..Len(pages) :
           \E u \in Range(fetchLog) : pages[i].url = as_str(u) /\ u.host = start_url.host

\* a page other than the start page, with links to other hosts, was scraped
\* and returned links
DomainScopedWitness ==
    /\ Len(served) >= 2
    /\ served[Len(served)] = DocSelf
    /\ extracted[Len(extracted)] # <<>>
    /\ last.ev = "ok"
    /\ last.url # start_url

IsPolicyPath(p) == \E k \in Keywords : contains(to_lowercase(p), k)

\* C7: no link returned by extract_internal_links has a lowercased path with
\* one of the keywords, and no URL other than the start URL is enqueued or
\* fetched with such a path.
Denylist ==
    /\ \A i \in 1..Len(extracted) :
           \A link \in Range(extracted[i]) : ~IsPolicyPath(link.path)
    /\ \A u \in Range(queue) \cup Range(fetchLog) :
           u # start_url => ~IsPolicyPath(u.path)

\* a page with a link to /Policy was scraped and returned its other links
DenylistWitness ==
    /\ served # <<>>
    /\ served[Len(served)] = DocIntro
    /\ Len(extracted[Len(extracted)]) = 2
    /\ start_url.host = HostBlog

\* scheme, host, path and query of a URL: the URL without its fragment
Resource(u) == [host |-> u.host, path |-> u.path]

\* C8: URLs that differ only in their fragment are one URL for the visited set
\* and the queue, so the resource they name is fetched at most once.
FragmentsNormalized ==
    /\ NoRepeats([i \in 1..Len(fetchLog) |-> Resource(fetchLog[i])])
    /\ NoRepeats([i \in 1..Len(queue) |-> Resource(queue[i])])

\* C10: the crawl loop terminates, and when it has terminated the queue is
\* empty or pages_scraped >= max_pages.
Terminates ==
    /\ <>(pc = "done")
    /\ [](pc = "done" => (queue = <<>> \/ pages_scraped >= max_pages))

\* the crawl ended on an empty queue, below the cap, after failures and
\* successes
TerminatesWitness ==
    /\ pc = "done"
    /\ queue = <<>>
    /\ pages_scraped < max_pages
    /\ Len(pages) >= 2
    /\ Len(fetchLog) > Len(pages)

----------------------------------------------------------------------------
(* Properties of scrape_page *)

\* the headers of the main region of the document, as scrape_page selects them
DocHeaders ==
    LET mains == select(document, "main")
    IN  IF mains = <<>> THEN <<>> ELSE select(mains[1].el, "h1, h2, h3, h4")

\* C9: every section of a scraped page has a non-empty header and at least one
\* content block, and the sections are exactly those of the headers with text
\* whose following siblings yield a block.
SectionsNonEmpty ==
    pc = "scraped" =>
        /\ \A i \in 1..Len(page.sections) :
               /\ page.sections[i].content # <<>>
               /\ page.sections[i].header # <<>>
        /\ Len(page.sections) =
               Cardinality({ i \in 1..Len(DocHeaders) :
                   /\ normalize(DocHeaders[i].el) # <<>>
                   /\ sibling_walk(DocHeaders[i].next) # <<>> })

\* a page with a header with text but no block after it, and another header
\* with a section
SectionsNonEmptyWitness ==
    /\ pc = "scraped"
    /\ Len(page.sections) = 1
    /\ \E i \in 1..Len(DocHeaders) :
           /\ normalize(DocHeaders[i].el) # <<>>
           /\ sibling_walk(DocHeaders[i].next) = <<>>

\* the blocks a node yields by itself: a paragraph if it is a <p> with text,
\* a list if it is a <ul> or <ol> with a non-empty item
OwnBlocks(n) == paragraph_blocks(n) \o list_blocks(n)

RECURSIVE Concat(_)
Concat(ss) == IF ss = <<>> THEN <<>> ELSE Head(ss) \o Concat(Tail(ss))

\* the content of the section of header entry h, by positions: the following
\* siblings before the first header among them, without the non-element and
\* the excluded ones, each yielding its own blocks
ExpectedContent(h) ==
    LET sibs == h.next
        stops == { i \in 1..Len(sibs) : IsElement(sibs[i]) /\ title_selector(sibs[i]) }
        end == IF stops = {} THEN Len(sibs)
               ELSE (CHOOSE i \in stops : \A j \in stops : i <= j) - 1
        kept == SelectSeq(SubSeq(sibs, 1, end),
                          LAMBDA n : IsElement(n) /\ ~exclusion_selector(n))
    IN  Concat([i \in 1..Len(kept) |-> OwnBlocks(kept[i])])

\* the sections of the header entries hs that have text and content
RECURSIVE ExpectedSections(_)
ExpectedSections(hs) ==
    IF hs = <<>> THEN <<>>
    ELSE (IF normalize(Head(hs).el) # <<>> /\ ExpectedContent(Head(hs)) # <<>>
          THEN <<[header |-> normalize(Head(hs).el),
                  content |-> ExpectedContent(Head(hs))]>>
          ELSE <<>>)
         \o ExpectedSections(Tail(hs))

\* C15: the content of each section is exactly the blocks of the header's
\* following immediate siblings, in order, up to the next header sibling;
\* excluded siblings, non-element nodes and anything nested in a sibling
\* contribute nothing.
SectionContent ==
    pc = "scraped" => page.sections = ExpectedSections(DocHeaders)

\* a header followed by a <div> holding a header and a paragraph, then by a
\* paragraph of its own: two sections of one block each
SectionContentWitness ==
    /\ pc = "scraped"
    /\ Len(page.sections) = 2
    /\ \E i \in 1..Len(DocHeaders) :
           /\ Len(DocHeaders[i].next) = 2
           /\ DocHeaders[i].next[1].tag = "div"
           /\ DocHeaders[i].next[2].tag = "p"
           /\ Len(ExpectedContent(DocHeaders[i])) = 1
    /\ \A i \in 1..2 : Len(page.sections[i].content) = 1

----------------------------------------------------------------------------
(* Further properties of the crawl loop *)

\* C11: every fetch, successful or not, is followed by the politeness delay
\* before the next pop, so a delay lies between any two consecutive fetches.
DelayAfterFetch ==
    \A i \in 1..Len(trace) :
        trace[i] = "fetch" =>
            \E j \in (i + 1)..Len(trace) :
                /\ trace[j] = "sleep"
                /\ \A k \in (i + 1)..(j - 1) : trace[k] \notin {"pop", "fetch"}

\* a failed fetch and a successful fetch have both happened, one after the other
DelayAfterFetchWitness ==
    /\ Len(fetchLog) >= 2
    /\ Len(pages) >= 1
    /\ Len(pages) < Len(fetchLog)
    /\ last.ev \in Failures
    /\ trace[Len(trace)] = "sleep"

\* the URL page i was fetched from
PageUrl(i) == CHOOSE u \in Range(fetchLog) : as_str(u) = pages[i].url

\* the URLs the anchors of the main region of doc resolve to against base
ResolvedAnchors(doc, base) ==
    LET mains == select(doc, "main")
        anchors == IF mains = <<>> THEN <<>> ELSE select(mains[1].el, "a[href]")
    IN  { url_join(base, anchors[i].el.href[1])[1] :
            i \in { k \in 1..Len(anchors) :
                      url_join(base, anchors[k].el.href[1]) # None } }

\* C14: the links returned for a page are exactly the URLs its anchors
\* resolve to that have the host of the page URL and no keyword in the
\* lowercased path, whatever the kind of host.
FilterByHost ==
    \A i \in 1..Len(pages) :
        Range(extracted[i]) =
            { r \in ResolvedAnchors(served[i], PageUrl(i)) :
                r.host = PageUrl(i).host /\ ~IsPolicyPath(r.path) }

\* C16: in every step visited only grows, the pages are only appended to, and
\* pages_scraped changes exactly when one page is appended, by +1.
Monotonic ==
    [][ /\ visited \subseteq visited'
        /\ Len(pages') >= Len(pages)
        /\ SubSeq(pages', 1, Len(pages)) = pages
        /\ pages_scraped' \in {pages_scraped, pages_scraped + 1}
        /\ (pages_scraped' = pages_scraped + 1) <=> (Len(pages') = Len(pages) + 1)
        /\ (pages_scraped' = pages_scraped) <=> (pages' = pages)
      ]_vars

\* three pages were appended, with a failure and a skipped URL on the way
MonotonicWitness ==
    /\ Len(pages) = 3
    /\ pages_scraped = 3
    /\ Cardinality(visited) >= 4
    /\ last.ev = "skip"

\* a step in which a document without a main region was fetched
NoMainStep ==
    /\ Len(served') = Len(served) + 1
    /\ select(served'[Len(served')], "main") = <<>>

\* C17: a fetched page without a main region yields a page with empty title
\* and no sections, which is appended and counted, and adds nothing to the queue.
NoMainPage ==
    [][ NoMainStep =>
          /\ pages' = Append(pages, [url |-> as_str(Head(queue)),
                                     title |-> <<>>, sections |-> <<>>])
          /\ pages_scraped' = pages_scraped + 1
          /\ extracted'[Len(extracted')] = <<>>
          /\ queue' = Tail(queue)
      ]_vars

\* a page without a main region, but with a paragraph and a link elsewhere,
\* was scraped while other URLs were pending
NoMainPageWitness ==
    /\ served # <<>>
    /\ served[Len(served)] = DocNoMain
    /\ last.ev = "ok"
    /\ pages[Len(pages)].sections = <<>>
    /\ queue # <<>>
    /\ Len(pages) >= 2

\* C18 as stated: the pending queue contains no URL that is in visited.
QueueDisjointFromVisited ==
    \A i \in 1..Len(queue) : as_str(queue[i]) \notin visited

\* page i links to itself
SelfLink(i) == \E link \in Range(extracted[i]) : as_str(link) = pages[i].url

\* C18, amended: a URL of the pending queue that is in visited is the URL of a
\* scraped page that linked to itself; no other visited URL is in the queue,
\* and a queued URL that is in visited is never fetched again.
QueueVisitedOnlySelfLinks ==
    /\ \A i \in 1..Len(queue) :
           as_str(queue[i]) \in visited =>
               \E j \in 1..Len(pages) : pages[j].url = as_str(queue[i]) /\ SelfLink(j)
    /\ NoRepeats([i \in 1..Len(fetchLog) |-> as_str(fetchLog[i])])

\* a page that links to itself and to an already visited page was scraped;
\* its own URL is pending again
QueueVisitedOnlySelfLinksWitness ==
    /\ Len(pages) >= 2
    /\ last.ev = "ok"
    /\ queue_contains(queue, last.url)
    /\ as_str(last.url) \in visited
    /\ \E link \in Range(extracted[Len(extracted)]) :
           link # last.url /\ as_str(link) \in visited /\ ~queue_contains(queue, link)

\* C19: the pending queue never contains the same URL twice.
QueueNoDuplicates == NoRepeats(queue)

\* two pages returned the same link, which is pending and was enqueued once
QueueNoDuplicatesWitness ==
    \E i, j \in 1..Len(extracted) :
        /\ i < j
        /\ \E link \in Range(extracted[i]) \cap Range(extracted[j]) :
               queue_contains(queue, link) /\ as_str(link) \notin visited

\* C20: when the crawl has ended below the cap, every link returned for a
\* scraped page is in visited.
AllLinksAttempted ==
    (pc = "done" /\ pages_scraped < max_pages) =>
        \A i \in 1..Len(extracted) :
            \A link \in Range(extracted[i]) : as_str(link) \in visited

\* the crawl ended below the cap after scraping pages with links, one of
\* which failed to fetch
AllLinksAttemptedWitness ==
    /\ pc = "done"
    /\ pages_scraped < max_pages
    /\ Len(pages) >= 2
    /\ \E i \in 1..Len(extracted) :
           \E link \in Range(extracted[i]) :
               \A j \in 1..Len(pages) : pages[j].url # as_str(link)

====
